---- MODULE Spec2Model ----
(***************************************************************************)
(* AppEngineOperatorAsync (airflow/contrib/operators/app_engine_operator.py)*)
(* as a state machine: the adoption check, the submit request, the poll     *)
(* loop with its backoff and wall-clock timeout, and the result phase, run  *)
(* against an XCom result store that a remote backend writes.               *)
(*                                                                         *)
(* Python values are modelled as strings; the Python value None is the     *)
(* token None, and a key with no XCom row holds the token NoRow.  Time is  *)
(* counted in whole seconds; every attempt reads its own clock now[p].     *)
(***************************************************************************)
EXTENDS Integers, Sequences, FiniteSets, TLC

\* ------------------------------------------------------------------ bounds
NumAttempts == 2        \* task attempts (operator copies) the host may run
ShortTimeout == 5       \* a small appengine_timeout, next to the default
MaxLatency == 1         \* seconds an attempt may spend in store reads and the submit request
MaxRaises == 2          \* poll-loop reads of one attempt that may raise

\* ------------------------------------------------------- program constants
DefaultTimeout == 3600  \* appengine_timeout=3600
MaxBackoff == 60        \* time.sleep(min(60, 2**i))

None == "<None>"
NoRow == "<no row>"
Sentinel == "__EXCEPTION__"
Unknown == "<UNKNOWN>"

XCOM_RETURN_KEY == "return_value"
PendingKey == "is_pending"
DetailKeys == {"__EXCEPTION_MESSAGE", "__EXCEPTION_TYPE", "__EXCEPTION_CALLSTACK"}
Keys == {XCOM_RETURN_KEY, PendingKey} \cup DetailKeys

Procs == 1..NumAttempts
Timeouts == {ShortTimeout, DefaultTimeout}
SuccessValues == {None, "done"}

VARIABLES
    xcom,              \* the result store: key -> value, or NoRow
    appengine_timeout, \* self.appengine_timeout
    attempts,          \* the attempts the host runs
    pc,                \* where each attempt's invocation stands
    should_adopt, finished, return_value,   \* self.* fields
    exc_message, exc_type, exc_callstack,   \* self.exc_*
    retval, start_time, i,                  \* locals of poll_status
    now,               \* each attempt's wall clock (datetime.utcnow())
    outcome,           \* how execute() ended
    raised,            \* the argument of the AirflowException raised
    logged,            \* the "Found exception %s: %s" error line
    \* history, read by the properties only
    submits,           \* submit requests sent to /async/<command>
    submitResult,      \* "none", or how the submit request ended: "ok", "failed"
    reads,             \* poll-loop reads of the default key
    lastRead,          \* the read of the current loop pass: "absent", "raised", "found"
    sleeps,            \* the poll loop's sleeps, in order
    store0,            \* the store as it was at the adoption check
    checkHid,          \* keys whose row a raising read of the adoption check hid
    raises,            \* poll-loop reads of the default key that raised
    written,           \* when the default key was written, on the attempt's clock
    latency,           \* seconds spent in the submit request and poll-loop reads
    readLatency        \* seconds spent in poll-loop reads

opvars == <<should_adopt, finished, return_value, exc_message, exc_type, exc_callstack>>
pollvars == <<retval, start_time, i>>
endvars == <<outcome, raised, logged>>
histvars == <<submits, submitResult, reads, lastRead, sleeps, store0, checkHid, raises,
              written, latency, readLatency>>
asyncvars == <<xcom, appengine_timeout, attempts, pc, opvars, pollvars, now, endvars, histvars>>

\* AppEngineOperatorSync
VARIABLES
    sync_pc,           \* where the execute() of AppEngineOperatorSync stands
    response,          \* the response hook.run handed back, or NoResponse
    sync_requests,     \* requests sent to /api/airflow_v2/sync/<command>
    pushes,            \* the xcom_push calls made, in order: <<key, value>>
    sync_outcome       \* how execute() ended

syncvars == <<sync_pc, response, sync_requests, pushes, sync_outcome>>

\* kubernetes_utils.uniquify_job_name / deuniquify_job_name
VARIABLES
    name_pc,           \* "idle", "unique" (uniquified), "done" (deuniquified), "error"
    name_args,         \* the arguments of the uniquify_job_name call
    job_name,          \* the name uniquify_job_name joined the digest to
    unique_name,       \* what uniquify_job_name returned
    stripped_name      \* what deuniquify_job_name returned for it

namevars == <<name_pc, name_args, job_name, unique_name, stripped_name>>

\* AppEngineOperator, which polls for marker objects in a bucket
VARIABLES
    file_pc,           \* where the execute() of AppEngineOperator stands
    file_start, file_i,\* start_time and i of poll_status_files
    file_now,          \* the wall clock (datetime.utcnow())
    gcs,               \* the marker objects in the bucket: "succeeded", "failed"
    file_outcome,      \* how execute() ended
    file_message,      \* the argument of the AirflowException raised
    \* history, read by the properties only
    file_submits,      \* requests sent to /api/airflow/schedule_job
    file_sleeps,       \* the sleeps of the loop, in order
    file_rounds,       \* passes of the loop whose checks found neither object
    file_found,        \* what the checks of the current pass found
    file_latency       \* seconds spent in the request and the existence checks

filevars == <<file_pc, file_start, file_i, file_now, gcs, file_outcome, file_message,
              file_submits, file_sleeps, file_rounds, file_found, file_latency>>

\* kubernetes_utils.retryable_check_output
VARIABLES
    retry_pc,          \* "idle", "try" (a frame is about to invoke), "done"
    retry_args,        \* args
    retry_n,           \* retry_count of the outermost call
    retry_count,       \* retry_count of the innermost frame
    retry_calls,       \* the subprocess invocations so far, in order, with how each ended
    retry_result       \* what the outermost call returned or raised

retryvars == <<retry_pc, retry_args, retry_n, retry_count, retry_calls, retry_result>>

\* What an action of one component leaves alone: the state of the others.
nonAsync == <<syncvars, namevars, filevars, retryvars>>
nonSync == <<asyncvars, namevars, filevars, retryvars>>
nonName == <<asyncvars, syncvars, filevars, retryvars>>
nonFile == <<asyncvars, syncvars, namevars, retryvars>>
nonRetry == <<asyncvars, syncvars, namevars, filevars>>

vars == <<asyncvars, syncvars, namevars, filevars, retryvars>>

Min(a, b) == IF a <= b THEN a ELSE b

\* ---------------------------------------------------------- store reads
\* A store read either answers or raises; Raised stands for the exception.
Raised == "<raised>"

\* airflow.contrib.utils.xcom.try_xcom_pull: (found, value); a read that
\* raises is folded into "not found".  Python's tuple[0], tuple[1] are
\* tuple[1], tuple[2] here.
try_xcom_pull(store, key, err) ==
    IF err \/ store[key] = NoRow THEN <<FALSE, None>> ELSE <<TRUE, store[key]>>

\* BaseOperator.xcom_pull: the value, None when there is no row.
xcom_pull(store, key, err) ==
    IF err THEN Raised ELSE IF store[key] = NoRow THEN None ELSE store[key]

\* (the pull without its try/except)
safe_xcom_pull_Unguarded(store, key, err) == xcom_pull(store, key, err)

\* safe_xcom_pull: xcom_pull, None on any exception.
safe_xcom_pull(store, key, err) ==
    LET v == xcom_pull(store, key, err) IN IF v = Raised THEN None ELSE v

\* retrieve_exception_details: the three self.exc_* fields.
retrieve_exception_details(store, errs) ==
    [m |-> safe_xcom_pull(store, "__EXCEPTION_MESSAGE", errs["__EXCEPTION_MESSAGE"]),
     t |-> safe_xcom_pull(store, "__EXCEPTION_TYPE", errs["__EXCEPTION_TYPE"]),
     c |-> safe_xcom_pull(store, "__EXCEPTION_CALLSTACK", errs["__EXCEPTION_CALLSTACK"])]

\* An exception leaves retrieve_exception_details when a pull lets one out.
Propagates(x) == Raised \in {x.m, x.t, x.c}

NoDetails == [m |-> None, t |-> None, c |-> None]
NoErrs == [k \in DetailKeys |-> FALSE]
ErrChoices == [DetailKeys -> BOOLEAN]

\* ------------------------------------------------- decisions of the code
\* 2**i; Python integers do not overflow, TLC's do, and min(60, .) and
\* min(60, 5 * .) are the same for every power from 2**6 on.
Pow2(k) == IF k >= 20 THEN 2^20 ELSE 2^k

\* (the cap left out: time.sleep(2**i))
Backoff_NoCap(k) == Pow2(k)

\* min(60, 2**i), the argument of time.sleep
Backoff(k) == Min(MaxBackoff, Pow2(k))

\* (a sign slip: the start time added to the clock instead of subtracted)
RemainingSecs_SignSlip(timeout, start, t) == timeout - (t + start)

\* remaining_secs = self.appengine_timeout - (utcnow() - start_time).total_seconds()
RemainingSecs(timeout, start, t) == timeout - (t - start)

\* if remaining_secs <= 0: raise AirflowTaskTimeout()
TimedOut(remaining) == remaining <= 0

\* (the test inverted: the request is sent only when the marker was seen)
SkipSubmit_Inverted(adopt, fin) == ~adopt

\* (the test left out: the request is sent whatever the adoption check saw)
SkipSubmit_Never(adopt, fin) == FALSE

\* schedule_job: "if self.should_adopt: ... return" is the only test made
\* before the request is built and sent.
SkipSubmit(adopt, fin) == adopt

\* (a handler around hook.run that logs the failure and goes on)
AfterSubmit_Swallow(ok) == "poll"

\* hook.run raises on a 4xx/5xx status or a transport error, and
\* schedule_job has no handler around it.
AfterSubmit(ok) == IF ok THEN "poll" ELSE "raise"

\* (a guard against a second submission: an attempt holds back when another
\* attempt of the task has sent the request)
HeldBack_ByOthers(p, sent) == \E q \in DOMAIN sent : q # p /\ sent[q] > 0

\* schedule_job takes no lock and looks at no other attempt: nothing but its
\* own should_adopt holds an attempt back.
HeldBack(p, sent) == FALSE

\* (the operator recording the submission itself: an xcom_push of the
\* is_pending marker after hook.run)
StoreAfterSubmit_Marked(store) == [store EXCEPT ![PendingKey] = "1"]

\* schedule_job makes no xcom_push: the store after the request is the store
\* before it; the is_pending marker is the remote backend's to write.
StoreAfterSubmit(store) == store

\* poll_status: "if self.finished:" skips the loop.
SkipPoll(fin) == fin

\* (the break left out: "while retval is None" alone decides, so a row
\* holding None sends the loop round again)
AfterRead_WhileNone(found, value) ==
    IF ~found THEN "sleep" ELSE IF value = None THEN "loop" ELSE "result"

\* (the test inverted: "if retval_tuple[0]: sleep; continue")
AfterRead_Inverted(found, value) == IF found THEN "sleep" ELSE "result"

\* the loop body: "if not retval_tuple[0]: sleep; continue"; otherwise
\* retval is assigned and the unconditional break leaves the loop.
AfterRead(found, value) == IF ~found THEN "sleep" ELSE "result"

\* the result phase: "if retval == '__EXCEPTION__':"
IsRemoteFailure(value) == value = Sentinel

\* x or '<UNKNOWN>' in the error log line
Falsy(v) == v = None \/ v = ""
OrUnknown(v) == IF Falsy(v) THEN Unknown ELSE v

\* raise AirflowException(self.exc_message)
ExceptionMessage(msg) == msg

\* -------------------------------------------------- AppEngineOperatorSync
\* Python values as the decoders produce them: the type and the text of the
\* value.  Falsy values are the empty ones: None, {}, '' and b''.
PyValue(type, repr) == [type |-> type, repr |-> repr]
ParseError == PyValue("error", "ValueError")
IsEmptyValue(v) == v.type = "NoneType" \/ v.repr \in {"", "{}"}

\* response.json(): the body parsed as JSON, ValueError on a body that is none
JsonLoads(content) ==
    CASE content = "{}" -> PyValue("dict", "{}")
      [] content = "null" -> PyValue("NoneType", "None")
      [] content = "{\"a\": 1}" -> PyValue("dict", "{'a': 1}")
      [] OTHER -> ParseError

\* yaml.load(response.text): flow mappings, block mappings, null, plain scalars
YamlLoad(content) ==
    CASE content = "{}" -> PyValue("dict", "{}")
      [] content = "null" -> PyValue("NoneType", "None")
      [] content = "{\"a\": 1}" -> PyValue("dict", "{'a': 1}")
      [] content = "a: 1" -> PyValue("dict", "{'a': 1}")
      [] OTHER -> PyValue("str", content)

\* response.text and response.content
TextOf(content) == PyValue("str", content)
BytesOf(content) == PyValue("bytes", content)

YamlTypes == {"text/yaml", "text/x-yaml", "text/vnd.yaml", "application/yaml", "application/x-yaml"}

\* A header value is a sequence of pieces of text, ";" a piece of its own;
\* two header values are the same text iff they are the same sequence.
\* (the split left out: the whole header value is compared)
ContentType_NoSplit(header) == header

\* response.headers['Content-Type'].split(';')[0]
ContentType(header) ==
    IF \E k \in 1..Len(header) : header[k] = ";"
    THEN SubSeq(header, 1, (CHOOSE k \in 1..Len(header) :
                               header[k] = ";" /\ \A j \in 1..(k - 1) : header[j] # ";") - 1)
    ELSE header

\* the if/elif chain on content_type
Decode(content_type, content) ==
    IF content_type = <<"application/json">> THEN JsonLoads(content)
    ELSE IF content_type = <<"text/plain">> THEN TextOf(content)
    ELSE IF \E y \in YamlTypes : content_type = <<y>> THEN YamlLoad(content)
    ELSE BytesOf(content)

\* (the guard left out: every response is decoded and pushed)
HasBody_Always(content) == TRUE

\* "if response.content:" guards the decoding and the push
HasBody(content) == content # ""

\* HttpHook.run: raises on a 4xx or 5xx status
HookRaises(status) == status >= 400

\* (a handler around hook.run that goes on with the response)
AfterRun_Swallow(raising) == "response"

\* "with hook.run(...) as response:" has no handler around it
AfterRun(raising) == IF raising THEN "raise" ELSE "response"

NoResponse == [status |-> 0, headers |-> <<>>, content |-> ""]
MediaTypes == {"application/json", "text/plain", "application/octet-stream"} \cup YamlTypes
HeaderValues ==
    UNION {{<<t>>, <<t, ";", " charset=utf-8">>, <<t, " ", ";", "charset=utf-8">>,
            <<t, ";", " charset=utf-8", ";", " boundary=x">>} : t \in MediaTypes}
\* response.headers: a mapping that holds Content-Type or does not
HeaderMaps ==
    {<<>>} \cup {[n \in {"Content-Type"} |-> h] : h \in HeaderValues}
Contents == {"", "{}", "null", "{\"a\": 1}", "hello", "a: 1"}
Statuses == {200, 404, 500}
Responses == [status : Statuses, headers : HeaderMaps, content : Contents]

\* __init__ of AppEngineOperatorSync, before execute()
SyncInit ==
    /\ sync_pc = "idle"
    /\ response = NoResponse
    /\ sync_requests = 0
    /\ pushes = <<>>
    /\ sync_outcome = "running"

\* ------------------------------------------------------- kubernetes_utils
\* Strings are sequences of one-character strings.
HexChars == <<"0", "1", "2", "3", "4", "5", "6", "7", "8", "9", "a", "b", "c", "d", "e", "f">>
IsHex(c) == \E k \in 1..Len(HexChars) : HexChars[k] = c
AllHex(s) == \A k \in 1..Len(s) : IsHex(s[k])

DigestLen == 128        \* hashlib.sha512(...).hexdigest(): 128 lowercase hex characters
HashLen == 16           \* .hexdigest()[:16]
MinSuffix == 12         \* [0-9a-f]{12,16}
MaxSuffix == 16

\* hashlib.sha512(" ".join([execution_date, dag_id, task_id, run_timestamp])).hexdigest():
\* some function of the four texts whose value is 128 lowercase hex characters.
HexDigest(e, d, t, r) ==
    [k \in 1..DigestLen |-> HexChars[(((e * 27 + d * 9 + t * 3 + r + 1) * (k + 2) + k * k) % 16) + 1]]

\* "-".join([a, b])
JoinDash(a, b) == a \o <<"-">> \o b

\* s.split('.')[-1]
LastSegment(s) ==
    IF \E k \in 1..Len(s) : s[k] = "."
    THEN SubSeq(s, (CHOOSE k \in 1..Len(s) : s[k] = "." /\ \A j \in (k + 1)..Len(s) : s[j] # ".") + 1,
                Len(s))
    ELSE s

NoName == <<"<None>">>

\* the job_name uniquify_job_name works with: the argument, or the task's
\* job_name attribute, or the last dotted part of its command_name
InferredJobName(arg, task) ==
    IF arg # NoName THEN arg
    ELSE IF task.attr = "job_name" THEN task.name
    ELSE IF task.attr = "command_name" THEN LastSegment(task.name)
    ELSE NoName

\* uniquify_job_name's return value
uniquify_job_name(name, e, d, t, r) == JoinDash(name, SubSeq(HexDigest(e, d, t, r), 1, HashLen))

\* '^(.+)-[0-9a-f]{16}-[0-9a-f]{12,16}$': the lengths m of a last run of hex
\* characters with which the whole string matches.  No hex character is a
\* "-", so at most one m fits; the names here hold no newline.
SuffixLens(s) ==
    {m \in MinSuffix..MaxSuffix :
        /\ Len(s) >= 1 + 1 + HashLen + 1 + m
        /\ AllHex(SubSeq(s, Len(s) - m + 1, Len(s)))
        /\ s[Len(s) - m] = "-"
        /\ AllHex(SubSeq(s, Len(s) - m - HashLen, Len(s) - m - 1))
        /\ s[Len(s) - m - HashLen - 1] = "-"}

\* re.sub(pattern, '\\1', unique_job_name): group 1 when the string matches,
\* the string itself when it does not
deuniquify_job_name(s) ==
    IF SuffixLens(s) = {} THEN s
    ELSE LET m == CHOOSE m \in SuffixLens(s) : TRUE
         IN  SubSeq(s, 1, Len(s) - m - HashLen - 2)

\* The inputs: names, some ending the way a uniquified name ends; tasks with
\* a job_name, with a command_name, or with neither; timestamps and ids.
Hex12 == <<"0", "1", "2", "3", "4", "5", "6", "7", "8", "9", "a", "b">>
Hex16 == HexChars
Stems == {<<"j">>, <<"j", "o", "b">>, <<"m", "y", "-", "j", "o", "b">>, <<"a", "b", "c", "d">>}
JobNames == Stems \cup {JoinDash(n, Hex16) : n \in Stems} \cup {JoinDash(n, Hex12) : n \in Stems}
Tasks ==
    {[attr |-> "job_name", name |-> <<"j", "o", "b">>],
     [attr |-> "command_name", name |-> <<"e", ".", "c", ".", "E", "x">>],
     [attr |-> "command_name", name |-> <<"E", "x">>],
     [attr |-> "none", name |-> <<>>]}
Ids == 0..1
NoTimestamp == 0 - 1
NameArgs ==
    [job_name : JobNames \cup {NoName}, task : Tasks, execution_date : Ids, dag_id : Ids,
     task_id : Ids, run_timestamp : Ids \cup {NoTimestamp}]
NoArgs ==
    [job_name |-> NoName, task |-> [attr |-> "none", name |-> <<>>], execution_date |-> 0,
     dag_id |-> 0, task_id |-> 0, run_timestamp |-> NoTimestamp]

NameInit ==
    /\ name_pc = "idle"
    /\ name_args = NoArgs
    /\ job_name = NoName
    /\ unique_name = <<>>
    /\ stripped_name = <<>>

\* ------------------------------------------- AppEngineOperator (files)
FileTimeout == 3600     \* while (utcnow() - start_time).total_seconds() < 3600
FileBackoffBase == 5    \* time.sleep(min(60, 5 * 2**i))
FileMaxBackoff == 60

Succeeded == "succeeded"    \* '%s/succeeded' % self.job_id
Failed == "failed"          \* '%s/failed' % self.job_id
FailureMessage == "found failure file"

\* GoogleCloudStorageHook.exists(bucket, object): whether the object is there
GcsExists(objects, name) == name \in objects

\* check_gcs_file_exists: hook.exists(bucket, file_name)
check_gcs_file_exists(objects, name) == GcsExists(objects, name)

\* (the backoff of the XCom poll loop used here: min(60, 2**i))
FileBackoff_NoBase(k) == Min(FileMaxBackoff, Pow2(k))

\* min(60, 5 * 2**i)
FileBackoff(k) == Min(FileMaxBackoff, FileBackoffBase * Pow2(k))

\* (a digit dropped from the budget: 360)
FileKeepPolling_Short(elapsed) == elapsed < 360

\* the loop condition
FileKeepPolling(elapsed) == elapsed < FileTimeout

\* (the failure object looked for first)
FirstCheck_Failed == Failed

\* the object the first existence check of a pass looks for
FirstCheck == Succeeded

\* (the failure object ignored)
AfterFailCheck_Ignore(found) == "loop"

\* "if check_gcs_file_exists(fail_file_name, ...): raise AirflowException(...)"
AfterFailCheck(found) == IF found THEN "raise" ELSE "loop"

\* "if check_gcs_file_exists(success_file_name, ...): return"
AfterSuccessCheck(found) == IF found THEN "return" ELSE "next"

\* the object the second existence check of a pass looks for
SecondCheck == IF FirstCheck = Succeeded THEN Failed ELSE Succeeded

\* what follows an existence check: "return", "raise", or "absent" (go on)
CheckVerdict(object, found) ==
    IF object = Succeeded
    THEN (IF AfterSuccessCheck(found) = "return" THEN "return" ELSE "absent")
    ELSE (IF AfterFailCheck(found) = "raise" THEN "raise" ELSE "absent")

FileInit ==
    /\ file_pc = "idle"
    /\ file_start = 0
    /\ file_i = 0
    /\ file_now = 0
    /\ gcs = {}
    /\ file_outcome = "running"
    /\ file_message = ""
    /\ file_submits = 0
    /\ file_sleeps = <<>>
    /\ file_rounds = 0
    /\ file_found = {}
    /\ file_latency = 0

\* ------------------------------------------------ retryable_check_output
MaxRetryCount == 4          \* the largest retry_count a caller passes
DefaultRetryCount == 3      \* retry_count=3

RetryCounts == 0..MaxRetryCount
RetryArgs == {<<"kubectl", "get">>, <<"kubectl", "describe">>}
\* How one subprocess.check_output ends: its output, CalledProcessError (a
\* non-zero exit status), or another error (OSError: no such program).
CallEnds ==
    [kind : {"output"}, value : {"out-a", "out-b"}]
        \cup [kind : {"CalledProcessError", "OSError"}, value : {""}]
NoResult == [kind |-> "none", value |-> ""]

\* (one retry too many)
RetryAgain_OffByOne(count) == count >= 0

\* "if retry_count > 0:" in the except clause
RetryAgain(count) == count > 0

\* "except subprocess.CalledProcessError" catches that error only
Caught(end) == end.kind = "CalledProcessError"

RetryInit ==
    /\ retry_pc = "idle"
    /\ retry_args = <<>>
    /\ retry_n = DefaultRetryCount
    /\ retry_count = DefaultRetryCount
    /\ retry_calls = <<>>
    /\ retry_result = NoResult

\* ------------------------------------------------------------------- Init
DetailValue(k) ==
    CASE k = "__EXCEPTION_MESSAGE" -> "boom"
      [] k = "__EXCEPTION_TYPE" -> "ValueError"
      [] k = "__EXCEPTION_CALLSTACK" -> "Traceback"

\* What the remote backend can have left in the store: a pending marker or
\* not; no result, a success payload, or the failure sentinel with any
\* subset of its detail keys.
FailureRows(S) == [k \in DetailKeys |-> IF k \in S THEN DetailValue(k) ELSE NoRow]
StoreOf(pending, rv, S) ==
    [k \in Keys |->
        IF k = PendingKey THEN (IF pending THEN "1" ELSE NoRow)
        ELSE IF k = XCOM_RETURN_KEY THEN rv
        ELSE IF rv = Sentinel THEN FailureRows(S)[k] ELSE NoRow]
Stores ==
    {StoreOf(pd, rv, S) : pd \in BOOLEAN, rv \in {NoRow, Sentinel} \cup SuccessValues,
                          S \in SUBSET DetailKeys}

\* __init__ of every operator copy
InitOperator ==
    /\ pc = [p \in Procs |-> "idle"]
    /\ should_adopt = [p \in Procs |-> FALSE]
    /\ finished = [p \in Procs |-> FALSE]
    /\ return_value = [p \in Procs |-> None]
    /\ exc_message = [p \in Procs |-> None]
    /\ exc_type = [p \in Procs |-> None]
    /\ exc_callstack = [p \in Procs |-> None]
    /\ retval = [p \in Procs |-> None]
    /\ start_time = [p \in Procs |-> 0]
    /\ i = [p \in Procs |-> 0]
    /\ now = [p \in Procs |-> 0]
    /\ outcome = [p \in Procs |-> "running"]
    /\ raised = [p \in Procs |-> NoRow]
    /\ logged = [p \in Procs |-> <<>>]

InitHistory ==
    /\ submits = [p \in Procs |-> 0]
    /\ submitResult = [p \in Procs |-> "none"]
    /\ reads = [p \in Procs |-> 0]
    /\ lastRead = [p \in Procs |-> "none"]
    /\ sleeps = [p \in Procs |-> <<>>]
    /\ store0 = [p \in Procs |-> StoreOf(FALSE, NoRow, {})]
    /\ checkHid = [p \in Procs |-> {}]
    /\ raises = [p \in Procs |-> 0]
    /\ written = [p \in Procs |-> IF xcom[XCOM_RETURN_KEY] = NoRow THEN "never" ELSE "before"]
    /\ latency = [p \in Procs |-> 0]
    /\ readLatency = [p \in Procs |-> 0]

\* One attempt, against a store the backend may have written to during an
\* earlier run of the same try.
\* The components that a specification does not run stay as constructed.
OthersInit == SyncInit /\ NameInit /\ FileInit /\ RetryInit

Init ==
    /\ xcom \in Stores
    /\ appengine_timeout \in Timeouts
    /\ attempts = {1}
    /\ InitOperator
    /\ InitHistory
    /\ OthersInit

\* ---------------------------------------------------------------- actions
\* The host runs the adoption check of an attempt before its execute().
Invoke(p) ==
    /\ p \in attempts
    /\ pc[p] = "idle"
    /\ pc' = [pc EXCEPT ![p] = "save"]
    /\ UNCHANGED <<xcom, appengine_timeout, attempts, opvars, pollvars, now, endvars, histvars>>
    /\ UNCHANGED nonAsync

\* save_previous_xcoms
SavePreviousXcoms(p) ==
    /\ pc[p] = "save"
    /\ \E e1 \in BOOLEAN, e2 \in BOOLEAN, errs \in ErrChoices :
        LET pending_tuple == try_xcom_pull(xcom, PendingKey, e1)
            return_value_tuple == try_xcom_pull(xcom, XCOM_RETURN_KEY, e2)
            details == return_value_tuple[1] /\ return_value_tuple[2] = Sentinel
            x == IF details THEN retrieve_exception_details(xcom, errs) ELSE NoDetails
        IN  /\ details \/ errs = NoErrs
            /\ should_adopt' = [should_adopt EXCEPT ![p] = IF pending_tuple[1] THEN TRUE ELSE @]
            /\ finished' = [finished EXCEPT ![p] = IF return_value_tuple[1] THEN TRUE ELSE @]
            /\ return_value' = [return_value EXCEPT
                                  ![p] = IF return_value_tuple[1] THEN return_value_tuple[2] ELSE @]
            /\ exc_message' = [exc_message EXCEPT ![p] = IF details THEN x.m ELSE @]
            /\ exc_type' = [exc_type EXCEPT ![p] = IF details THEN x.t ELSE @]
            /\ exc_callstack' = [exc_callstack EXCEPT ![p] = IF details THEN x.c ELSE @]
            /\ checkHid' = [checkHid EXCEPT
                              ![p] = {k \in {PendingKey} : e1 /\ xcom[k] # NoRow}
                                     \cup {k \in {XCOM_RETURN_KEY} : e2 /\ xcom[k] # NoRow}]
            /\ IF Propagates(x)
               THEN /\ pc' = [pc EXCEPT ![p] = "done"]
                    /\ outcome' = [outcome EXCEPT ![p] = "error"]
               ELSE /\ pc' = [pc EXCEPT ![p] = "schedule"]
                    /\ UNCHANGED outcome
    /\ store0' = [store0 EXCEPT ![p] = xcom]
    /\ UNCHANGED <<xcom, appengine_timeout, attempts, pollvars, now, raised, logged,
                   submits, submitResult, reads, lastRead, sleeps, raises, written,
                   latency, readLatency>>
    /\ UNCHANGED nonAsync

\* execute(): self.schedule_job(context)
ScheduleJob(p) ==
    /\ pc[p] = "schedule"
    /\ IF SkipSubmit(should_adopt[p], finished[p]) \/ HeldBack(p, submits)
       THEN /\ pc' = [pc EXCEPT ![p] = "poll"]
            /\ UNCHANGED <<xcom, now, outcome, submits, submitResult, latency>>
       ELSE \E ok \in BOOLEAN, d \in 0..(MaxLatency - latency[p]) :
            /\ submits' = [submits EXCEPT ![p] = @ + 1]
            /\ xcom' = IF ok THEN StoreAfterSubmit(xcom) ELSE xcom
            /\ submitResult' = [submitResult EXCEPT ![p] = IF ok THEN "ok" ELSE "failed"]
            /\ now' = [now EXCEPT ![p] = @ + d]
            /\ latency' = [latency EXCEPT ![p] = @ + d]
            /\ IF AfterSubmit(ok) = "poll"
               THEN /\ pc' = [pc EXCEPT ![p] = "poll"]
                    /\ UNCHANGED outcome
               ELSE /\ pc' = [pc EXCEPT ![p] = "done"]
                    /\ outcome' = [outcome EXCEPT ![p] = "submit_failed"]
    /\ UNCHANGED <<appengine_timeout, attempts, opvars, pollvars, raised, logged,
                   reads, lastRead, sleeps, store0, checkHid, raises, written, readLatency>>
    /\ UNCHANGED nonAsync

\* poll_status, up to the loop
PollStatus(p) ==
    /\ pc[p] = "poll"
    /\ IF SkipPoll(finished[p])
       THEN /\ retval' = [retval EXCEPT ![p] = return_value[p]]
            /\ pc' = [pc EXCEPT ![p] = "result"]
            /\ UNCHANGED <<start_time, i>>
       ELSE /\ start_time' = [start_time EXCEPT ![p] = now[p]]
            /\ i' = [i EXCEPT ![p] = 0]
            /\ pc' = [pc EXCEPT ![p] = "loop"]
            /\ UNCHANGED retval
    /\ UNCHANGED <<xcom, appengine_timeout, attempts, opvars, now, endvars, histvars>>
    /\ UNCHANGED nonAsync

\* one pass of "while retval is None": the timeout test, then the read
PollIteration(p) ==
    /\ pc[p] = "loop"
    /\ IF TimedOut(RemainingSecs(appengine_timeout, start_time[p], now[p]))
       THEN /\ outcome' = [outcome EXCEPT ![p] = "timeout"]
            /\ pc' = [pc EXCEPT ![p] = "done"]
            /\ UNCHANGED <<opvars, retval, now, reads, lastRead, raises, latency, readLatency>>
       ELSE \E err \in {e \in BOOLEAN : e => raises[p] < MaxRaises},
               d \in 0..(MaxLatency - latency[p]), errs \in ErrChoices :
            LET retval_tuple == try_xcom_pull(xcom, XCOM_RETURN_KEY, err)
                next == AfterRead(retval_tuple[1], retval_tuple[2])
                details == retval_tuple[1] /\ retval_tuple[2] = Sentinel
                x == IF details THEN retrieve_exception_details(xcom, errs) ELSE NoDetails
            IN  /\ details \/ errs = NoErrs
                /\ reads' = [reads EXCEPT ![p] = @ + 1]
                /\ lastRead' = [lastRead EXCEPT ![p] = IF err THEN "raised"
                                                      ELSE IF retval_tuple[1] THEN "found"
                                                      ELSE "absent"]
                /\ raises' = [raises EXCEPT ![p] = IF err THEN @ + 1 ELSE @]
                /\ now' = [now EXCEPT ![p] = @ + d]
                /\ latency' = [latency EXCEPT ![p] = @ + d]
                /\ readLatency' = [readLatency EXCEPT ![p] = @ + d]
                /\ retval' = [retval EXCEPT ![p] = IF retval_tuple[1] THEN retval_tuple[2] ELSE @]
                /\ exc_message' = [exc_message EXCEPT ![p] = IF details THEN x.m ELSE @]
                /\ exc_type' = [exc_type EXCEPT ![p] = IF details THEN x.t ELSE @]
                /\ exc_callstack' = [exc_callstack EXCEPT ![p] = IF details THEN x.c ELSE @]
                /\ IF Propagates(x)
                   THEN /\ pc' = [pc EXCEPT ![p] = "done"]
                        /\ outcome' = [outcome EXCEPT ![p] = "error"]
                   ELSE /\ pc' = [pc EXCEPT ![p] = next]
                        /\ UNCHANGED outcome
                /\ UNCHANGED <<should_adopt, finished, return_value>>
    /\ UNCHANGED <<xcom, appengine_timeout, attempts, start_time, i, raised, logged,
                   submits, submitResult, sleeps, store0, checkHid, written>>
    /\ UNCHANGED nonAsync

\* time.sleep(min(60, 2**i)); i += 1; continue
Sleep(p) ==
    /\ pc[p] = "sleep"
    /\ now' = [now EXCEPT ![p] = @ + Backoff(i[p])]
    /\ sleeps' = [sleeps EXCEPT ![p] = Append(@, Backoff(i[p]))]
    /\ i' = [i EXCEPT ![p] = @ + 1]
    /\ lastRead' = [lastRead EXCEPT ![p] = "none"]
    /\ pc' = [pc EXCEPT ![p] = "loop"]
    /\ UNCHANGED <<xcom, appengine_timeout, attempts, opvars, retval, start_time, endvars,
                   submits, submitResult, reads, store0, checkHid, raises, written,
                   latency, readLatency>>
    /\ UNCHANGED nonAsync

\* the result phase of poll_status, and the return of execute()
ResultPhase(p) ==
    /\ pc[p] = "result"
    /\ IF IsRemoteFailure(retval[p])
       THEN /\ logged' = [logged EXCEPT ![p] = <<OrUnknown(exc_type[p]), OrUnknown(exc_message[p])>>]
            /\ raised' = [raised EXCEPT ![p] = ExceptionMessage(exc_message[p])]
            /\ outcome' = [outcome EXCEPT ![p] = "remote_failed"]
       ELSE /\ outcome' = [outcome EXCEPT ![p] = "success"]
            /\ UNCHANGED <<raised, logged>>
    /\ pc' = [pc EXCEPT ![p] = "done"]
    /\ UNCHANGED <<xcom, appengine_timeout, attempts, opvars, pollvars, now, histvars>>
    /\ UNCHANGED nonAsync

\* ---------------------------------------------------- the remote backend
\* Where a write of the default key falls for each attempt: before its poll
\* phase, after its poll loop, or during it, and then before or after
\* appengine_timeout seconds have passed on the attempt's clock since the
\* start of the poll phase.
Written ==
    [p \in Procs |->
        IF pc[p] \in {"loop", "sleep"}
        THEN (IF now[p] - start_time[p] < appengine_timeout THEN "in time" ELSE "late")
        ELSE IF pc[p] \in {"result", "done"} THEN "after" ELSE "before"]

\* The backend is followed for as long as an attempt is under way.
Running == \E p \in attempts : pc[p] # "done"

RemotePending ==
    /\ Running
    /\ xcom[PendingKey] = NoRow
    /\ xcom' = [xcom EXCEPT ![PendingKey] = "1"]
    /\ UNCHANGED <<appengine_timeout, attempts, pc, opvars, pollvars, now, endvars, histvars>>
    /\ UNCHANGED nonAsync

RemoteReturn ==
    /\ Running
    /\ xcom[XCOM_RETURN_KEY] = NoRow
    /\ \E v \in SuccessValues : xcom' = [xcom EXCEPT ![XCOM_RETURN_KEY] = v]
    /\ written' = Written
    /\ UNCHANGED <<appengine_timeout, attempts, pc, opvars, pollvars, now, endvars,
                   submits, submitResult, reads, lastRead, sleeps, store0, checkHid, raises,
                   latency, readLatency>>
    /\ UNCHANGED nonAsync

RemoteFail ==
    /\ Running
    /\ xcom[XCOM_RETURN_KEY] = NoRow
    /\ \E S \in SUBSET DetailKeys : xcom' = StoreOf(xcom[PendingKey] # NoRow, Sentinel, S)
    /\ written' = Written
    /\ UNCHANGED <<appengine_timeout, attempts, pc, opvars, pollvars, now, endvars,
                   submits, submitResult, reads, lastRead, sleeps, store0, checkHid, raises,
                   latency, readLatency>>
    /\ UNCHANGED nonAsync

Step(p) ==
    \/ Invoke(p)
    \/ SavePreviousXcoms(p)
    \/ ScheduleJob(p)
    \/ PollStatus(p)
    \/ PollIteration(p)
    \/ Sleep(p)
    \/ ResultPhase(p)

Next ==
    \/ \E p \in Procs : Invoke(p)
    \/ \E p \in Procs : SavePreviousXcoms(p)
    \/ \E p \in Procs : ScheduleJob(p)
    \/ \E p \in Procs : PollStatus(p)
    \/ \E p \in Procs : PollIteration(p)
    \/ \E p \in Procs : Sleep(p)
    \/ \E p \in Procs : ResultPhase(p)
    \/ RemotePending
    \/ RemoteReturn
    \/ RemoteFail

Spec == Init /\ [][Next]_vars

\* Two attempts of the same task instance and try number under way at once,
\* against a store that holds nothing yet.
TwoAttempts == {1, 2}

\* The concurrent specification follows the interleaving of the attempts, not
\* the delays and read failures of one attempt: requests and reads take no
\* time and no read raises (both budgets start spent).
ConcHistory ==
    /\ submits = [p \in Procs |-> 0]
    /\ submitResult = [p \in Procs |-> "none"]
    /\ reads = [p \in Procs |-> 0]
    /\ lastRead = [p \in Procs |-> "none"]
    /\ sleeps = [p \in Procs |-> <<>>]
    /\ store0 = [p \in Procs |-> StoreOf(FALSE, NoRow, {})]
    /\ checkHid = [p \in Procs |-> {}]
    /\ raises = [p \in Procs |-> MaxRaises]
    /\ written = [p \in Procs |-> "never"]
    /\ latency = [p \in Procs |-> MaxLatency]
    /\ readLatency = [p \in Procs |-> 0]

ConcInit ==
    /\ xcom = StoreOf(FALSE, NoRow, {})
    /\ appengine_timeout = ShortTimeout
    /\ attempts = TwoAttempts
    /\ InitOperator
    /\ ConcHistory
    /\ OthersInit

ConcSpec == ConcInit /\ [][Next]_vars

\* One attempt is one thread of control that runs to completion.
FairSpec == Spec /\ \A p \in Procs : WF_vars(Step(p))

\* ----------------------------------------- AppEngineOperatorSync.execute()
\* hook.run(endpoint='/api/airflow_v2/sync/<command>', ...)
SyncRequest ==
    /\ sync_pc = "idle"
    /\ \E r \in Responses :
        /\ response' = r
        /\ sync_requests' = sync_requests + 1
        /\ IF AfterRun(HookRaises(r.status)) = "raise"
           THEN sync_pc' = "done" /\ sync_outcome' = "http_error"
           ELSE sync_pc' = "response" /\ UNCHANGED sync_outcome
    /\ UNCHANGED pushes
    /\ UNCHANGED nonSync

\* the body of the with block: decode by content type, xcom_push
SyncResponse ==
    /\ sync_pc = "response"
    /\ sync_pc' = "done"
    /\ IF ~HasBody(response.content)
       THEN /\ sync_outcome' = "success"
            /\ UNCHANGED pushes
       ELSE IF "Content-Type" \notin DOMAIN response.headers
       THEN /\ sync_outcome' = "key_error"
            /\ UNCHANGED pushes
       ELSE LET content_type == ContentType(response.headers["Content-Type"])
                body == Decode(content_type, response.content)
            IN  IF body = ParseError
                THEN /\ sync_outcome' = "decode_error"
                     /\ UNCHANGED pushes
                ELSE /\ pushes' = Append(pushes, <<XCOM_RETURN_KEY, body>>)
                     /\ sync_outcome' = "success"
    /\ UNCHANGED <<response, sync_requests>>
    /\ UNCHANGED nonSync

\* One AppEngineOperatorSync.execute() call; the asynchronous operator is
\* not run.
AsyncNotRun ==
    /\ xcom = StoreOf(FALSE, NoRow, {})
    /\ appengine_timeout = DefaultTimeout
    /\ attempts = {}
    /\ InitOperator
    /\ InitHistory

SyncSpecInit == AsyncNotRun /\ OthersInit

SyncNext == SyncRequest \/ SyncResponse

SyncSpec == SyncSpecInit /\ [][SyncNext]_vars

\* --------------------------------------- uniquify and deuniquify a name
\* uniquify_job_name(task_instance, context, run_timestamp, job_name)
Uniquify ==
    /\ name_pc = "idle"
    /\ \E a \in NameArgs, clock \in Ids :
        LET run == IF a.run_timestamp = NoTimestamp THEN clock ELSE a.run_timestamp
            name == InferredJobName(a.job_name, a.task)
        IN  /\ name_args' = a
            /\ job_name' = name
            /\ IF name = NoName
               THEN name_pc' = "error" /\ UNCHANGED unique_name
               ELSE /\ name_pc' = "unique"
                    /\ unique_name' = uniquify_job_name(name, a.execution_date, a.dag_id,
                                                        a.task_id, run)
    /\ UNCHANGED stripped_name
    /\ UNCHANGED nonName

\* deuniquify_job_name(unique_job_name), on the name just made
Deuniquify ==
    /\ name_pc = "unique"
    /\ stripped_name' = deuniquify_job_name(unique_name)
    /\ name_pc' = "done"
    /\ UNCHANGED <<name_args, job_name, unique_name>>
    /\ UNCHANGED nonName

NameSpecInit == AsyncNotRun /\ OthersInit

NameNext == Uniquify \/ Deuniquify

NameSpec == NameSpecInit /\ [][NameNext]_vars

\* ---------------------------------------------- AppEngineOperator.execute()
\* schedule_job: the POST to /api/airflow/schedule_job
FileScheduleJob ==
    /\ file_pc = "idle"
    /\ \E ok \in BOOLEAN, d \in 0..(MaxLatency - file_latency) :
        /\ file_submits' = file_submits + 1
        /\ file_now' = file_now + d
        /\ file_latency' = file_latency + d
        /\ IF AfterSubmit(ok) = "poll"
           THEN file_pc' = "poll" /\ UNCHANGED file_outcome
           ELSE file_pc' = "done" /\ file_outcome' = "submit_failed"
    /\ UNCHANGED <<file_start, file_i, gcs, file_message, file_sleeps, file_rounds, file_found>>
    /\ UNCHANGED nonFile

\* poll_status_files, up to the loop
FilePollStart ==
    /\ file_pc = "poll"
    /\ file_start' = file_now
    /\ file_i' = 0
    /\ file_pc' = "loop"
    /\ UNCHANGED <<file_now, gcs, file_outcome, file_message, file_submits, file_sleeps,
                   file_rounds, file_found, file_latency>>
    /\ UNCHANGED nonFile

\* the loop condition, "raise AirflowTaskTimeout()" when it fails, and
\* otherwise time.sleep(min(60, 5 * 2**i)); i += 1
FileSleep ==
    /\ file_pc = "loop"
    /\ IF FileKeepPolling(file_now - file_start)
       THEN /\ file_now' = file_now + FileBackoff(file_i)
            /\ file_sleeps' = Append(file_sleeps, FileBackoff(file_i))
            /\ file_i' = file_i + 1
            /\ file_found' = {}
            /\ file_pc' = "check_first"
            /\ UNCHANGED file_outcome
       ELSE /\ file_outcome' = "timeout"
            /\ file_pc' = "done"
            /\ UNCHANGED <<file_now, file_sleeps, file_i, file_found>>
    /\ UNCHANGED <<file_start, gcs, file_message, file_submits, file_rounds, file_latency>>
    /\ UNCHANGED nonFile

\* the first existence check of a pass
FileCheckSuccess ==
    /\ file_pc = "check_first"
    /\ \E d \in 0..(MaxLatency - file_latency) :
        /\ file_now' = file_now + d
        /\ file_latency' = file_latency + d
    /\ LET found == check_gcs_file_exists(gcs, FirstCheck)
           verdict == CheckVerdict(FirstCheck, found)
       IN  /\ file_found' = IF found THEN {FirstCheck} ELSE {}
           /\ IF verdict = "return"
              THEN file_pc' = "done" /\ file_outcome' = "success" /\ UNCHANGED file_message
              ELSE IF verdict = "raise"
              THEN /\ file_pc' = "done" /\ file_outcome' = "remote_failed"
                   /\ file_message' = FailureMessage
              ELSE file_pc' = "check_second" /\ UNCHANGED <<file_outcome, file_message>>
    /\ UNCHANGED <<file_start, file_i, gcs, file_submits, file_sleeps, file_rounds>>
    /\ UNCHANGED nonFile

\* the second existence check of a pass
FileCheckFail ==
    /\ file_pc = "check_second"
    /\ \E d \in 0..(MaxLatency - file_latency) :
        /\ file_now' = file_now + d
        /\ file_latency' = file_latency + d
    /\ LET found == check_gcs_file_exists(gcs, SecondCheck)
           verdict == CheckVerdict(SecondCheck, found)
       IN  /\ file_found' = IF found THEN {SecondCheck} ELSE {}
           /\ IF verdict = "raise"
              THEN /\ file_pc' = "done"
                   /\ file_outcome' = "remote_failed"
                   /\ file_message' = FailureMessage
                   /\ UNCHANGED file_rounds
              ELSE IF verdict = "return"
              THEN /\ file_pc' = "done" /\ file_outcome' = "success"
                   /\ UNCHANGED <<file_message, file_rounds>>
              ELSE /\ file_pc' = "loop"
                   /\ file_rounds' = file_rounds + 1
                   /\ UNCHANGED <<file_outcome, file_message>>
    /\ UNCHANGED <<file_start, file_i, gcs, file_submits, file_sleeps>>
    /\ UNCHANGED nonFile

\* The remote job leaves a marker object while the operator is under way.
GcsWrite ==
    /\ file_pc \notin {"idle", "done"}
    /\ \E o \in {Succeeded, Failed} \ gcs : gcs' = gcs \cup {o}
    /\ UNCHANGED <<file_pc, file_start, file_i, file_now, file_outcome, file_message,
                   file_submits, file_sleeps, file_rounds, file_found, file_latency>>
    /\ UNCHANGED nonFile

FileStep == FileScheduleJob \/ FilePollStart \/ FileSleep \/ FileCheckSuccess \/ FileCheckFail

FileSpecInit == AsyncNotRun /\ OthersInit

FileNext ==
    \/ FileScheduleJob
    \/ FilePollStart
    \/ FileSleep
    \/ FileCheckSuccess
    \/ FileCheckFail
    \/ GcsWrite

FileSpec == FileSpecInit /\ [][FileNext]_vars

\* execute() is one thread of control that runs to completion.
FileFairSpec == FileSpec /\ WF_vars(FileStep)

\* ------------------------------------------------ retryable_check_output
\* a caller calls retryable_check_output(args, retry_count)
RetryCall ==
    /\ retry_pc = "idle"
    /\ \E a \in RetryArgs, n \in RetryCounts :
        /\ retry_args' = a
        /\ retry_n' = n
        /\ retry_count' = n
    /\ retry_pc' = "try"
    /\ UNCHANGED <<retry_calls, retry_result>>
    /\ UNCHANGED nonRetry

\* one frame: subprocess.check_output(args=args), then return its output, or
\* recurse with retry_count - 1, or let the error out; what the innermost
\* frame returns or raises, every frame above it returns or raises unchanged
RetryInvoke ==
    /\ retry_pc = "try"
    /\ \E end \in CallEnds :
        /\ retry_calls' = Append(retry_calls, end)
        /\ IF Caught(end) /\ RetryAgain(retry_count)
           THEN /\ retry_count' = retry_count - 1
                /\ UNCHANGED <<retry_pc, retry_result>>
           ELSE /\ retry_result' = end
                /\ retry_pc' = "done"
                /\ UNCHANGED retry_count
    /\ UNCHANGED <<retry_args, retry_n>>
    /\ UNCHANGED nonRetry

RetrySpecInit == AsyncNotRun /\ OthersInit

RetryNext == RetryCall \/ RetryInvoke

RetrySpec == RetrySpecInit /\ [][RetryNext]_vars

\* A subprocess invocation ends, and the frames are one thread of control.
RetryFairSpec == RetrySpec /\ WF_vars(RetryInvoke)

\* ------------------------------------------------------------- properties
Checked(p) == pc[p] \notin {"idle", "save"}
Ended(p) == pc[p] = "done"

C2_FinishedSkipsSubmitAndPoll ==
    \A p \in Procs :
        (Checked(p) /\ store0[p][XCOM_RETURN_KEY] # NoRow /\ checkHid[p] = {})
            => submits[p] = 0 /\ reads[p] = 0 /\ sleeps[p] = <<>>

\* C3: a submit request that fails ends execute() at once with that error:
\* one request sent, no poll-loop read, no sleep.
C3_SubmitFailureIsFatal ==
    \A p \in Procs :
        submitResult[p] = "failed"
            => /\ Ended(p) /\ outcome[p] = "submit_failed"
               /\ submits[p] = 1 /\ reads[p] = 0 /\ sleeps[p] = <<>>

C3_Witness ==
    \E p \in Procs :
        submitResult[p] = "failed" /\ outcome[p] = "submit_failed" /\ submits[p] = 1

Elapsed(p) == now[p] - start_time[p]
PollRead(p) == reads'[p] = reads[p] + 1
Field(p, k) ==
    CASE k = "__EXCEPTION_MESSAGE" -> exc_message[p]
      [] k = "__EXCEPTION_TYPE" -> exc_type[p]
      [] k = "__EXCEPTION_CALLSTACK" -> exc_callstack[p]

InLoop(p) == pc[p] \in {"loop", "sleep"}

\* C4: with the default key never written, every attempt that reaches the
\* poll loop leaves it, and leaves it with the timeout error, never with
\* success or a remote failure; and the timeout error is raised only once
\* appengine_timeout seconds have passed since the start of the poll phase.
C4_TimeoutWhenNeverWritten ==
    /\ [](\A p \in Procs : outcome[p] = "timeout" => Elapsed(p) >= appengine_timeout)
    /\ [](\A p \in Procs :
            (pc[p] \in {"result", "done"} /\ xcom[XCOM_RETURN_KEY] = NoRow)
                => outcome[p] \in {"timeout", "submit_failed"})
    /\ (\E p \in Procs : InLoop(p))
          ~> \/ xcom[XCOM_RETURN_KEY] # NoRow
             \/ \A p \in Procs : ~InLoop(p) /\ (reads[p] > 0 => outcome[p] = "timeout")

C4_Witness ==
    \E p \in Procs :
        /\ outcome[p] = "timeout" /\ xcom[XCOM_RETURN_KEY] = NoRow
        /\ appengine_timeout = DefaultTimeout /\ start_time[p] > 0

ExpectedSleep(k) == IF k < 6 THEN <<1, 2, 4, 8, 16, 32>>[k + 1] ELSE 60

\* C5: the k-th sleep of the poll loop (k = 0, 1, ...) lasts min(60, 2^k)
\* seconds: 1, 2, 4, 8, 16, 32, 60, 60, ..., never decreasing, never above
\* 60, one sleep after each read that did not find the default key.
C5_BackoffSequence ==
    \A p \in Procs :
        /\ \A k \in 1..Len(sleeps[p]) :
            /\ sleeps[p][k] = ExpectedSleep(k - 1)
            /\ sleeps[p][k] <= 60
            /\ k > 1 => sleeps[p][k - 1] <= sleeps[p][k]
        /\ Len(sleeps[p]) =
             reads[p] - (IF pc[p] = "sleep" \/ lastRead[p] = "found" THEN 1 ELSE 0)

C5_Witness ==
    \E p \in Procs : Len(sleeps[p]) >= 8 /\ sleeps[p][6] = 32 /\ sleeps[p][8] = 60

\* C6: if the default key is written before appengine_timeout seconds have
\* passed since the start of the poll phase (and no poll read of it raises),
\* execute() does not end with the timeout error.
C6_NoTimeoutIfWrittenInTime ==
    \A p \in Procs :
        (written[p] \in {"before", "in time"} /\ raises[p] = 0) => outcome[p] # "timeout"

\* C7: a poll read that finds the default key absent is followed by a sleep
\* and another pass of the loop; a read that finds the key ends the loop on
\* that read with the value read, whatever the value (None included); and a
\* value other than "__EXCEPTION__" makes execute() end successfully.
C7_AbsentContinuesPresentEnds ==
    [][\A p \in Procs :
        /\ (PollRead(p) /\ lastRead'[p] = "absent")
              => (pc'[p] = "sleep" /\ outcome'[p] = "running")
        /\ (PollRead(p) /\ lastRead'[p] = "found")
              => (pc'[p] = "result" /\ retval'[p] = xcom[XCOM_RETURN_KEY])
        /\ (pc[p] = "sleep" /\ pc'[p] # "sleep") => pc'[p] = "loop"
        /\ (pc[p] = "result" /\ pc'[p] # "result" /\ retval[p] # Sentinel)
              => (pc'[p] = "done" /\ outcome'[p] = "success")]_vars

C7_Witness ==
    \E p \in Procs :
        /\ lastRead[p] = "found" /\ xcom[XCOM_RETURN_KEY] = None /\ retval[p] = None
        /\ Len(sleeps[p]) >= 1 /\ outcome[p] = "success"

\* C8: a remote failure ends execute() with an AirflowException whose message
\* is the value stored under __EXCEPTION_MESSAGE when that key is present
\* (and was read), and the "unknown" placeholder when the key is absent
\* (stated for the runs in which no read of the marker or the default key
\* raises).
C8_MessageOrPlaceholder ==
    \A p \in Procs :
        (outcome[p] = "remote_failed" /\ checkHid[p] = {} /\ raises[p] = 0)
            => /\ (xcom["__EXCEPTION_MESSAGE"] # NoRow /\ exc_message[p] # None)
                      => raised[p] = xcom["__EXCEPTION_MESSAGE"]
               /\ xcom["__EXCEPTION_MESSAGE"] = NoRow => raised[p] = Unknown

\* C9: once the result phase holds the failure sentinel, execute() ends with
\* the remote-failure error whatever the detail reads did: a detail key that
\* is missing, or whose read raises, gives None, no other error ends the
\* attempt, and the attempt does not succeed.
C9_DetailFetchNeverChangesOutcome ==
    \A p \in Procs :
        /\ outcome[p] # "error"
        /\ (Ended(p) /\ retval[p] = Sentinel) => outcome[p] = "remote_failed"
        /\ (pc[p] \in {"result", "done"} /\ retval[p] = Sentinel)
              => \A k \in DetailKeys :
                    /\ Field(p, k) \in {None, xcom[k]}
                    /\ xcom[k] = NoRow => Field(p, k) = None

C9_Witness ==
    \E p \in Procs :
        /\ outcome[p] = "remote_failed"
        /\ xcom["__EXCEPTION_MESSAGE"] # NoRow /\ exc_message[p] = None
        /\ xcom["__EXCEPTION_TYPE"] = NoRow /\ exc_type[p] = None
        /\ exc_callstack[p] = "Traceback"

SyncFailed == response # NoResponse /\ response.status >= 400

\* C11: a sync request answered with a 4xx/5xx status ends execute() with
\* that error: one request sent, none after it, and nothing pushed to the
\* result store.
C11_HttpErrorIsFatal ==
    SyncFailed => /\ sync_pc = "done" /\ sync_outcome = "http_error"
                  /\ sync_requests = 1
                  /\ pushes = <<>>

C11_Witness ==
    /\ SyncFailed /\ response.status = 404 /\ sync_outcome = "http_error"
    /\ response.content = "hello"
    /\ "Content-Type" \in DOMAIN response.headers
    /\ response.headers["Content-Type"] = <<"text/plain">>

\* C12, as stated: the decoded body is written under the default key if and
\* only if it is non-empty, so no empty value (None, {}) is ever written.
C12_WritesIffDecodedNonEmpty ==
    sync_pc = "done" =>
        /\ Len(pushes) <= 1
        /\ \A k \in 1..Len(pushes) :
              pushes[k][1] = XCOM_RETURN_KEY /\ ~IsEmptyValue(pushes[k][2])

\* C12, amended: execute() writes one value, the decoded body, under the
\* default key if and only if it ends without error and the raw response
\* content is non-empty; the value written may be empty (None, {}).
C12_WritesIffContentNonEmpty ==
    /\ Len(pushes) <= 1
    /\ pushes # <<>> <=> (sync_pc = "done" /\ sync_outcome = "success" /\ response.content # "")
    /\ \A k \in 1..Len(pushes) :
          /\ pushes[k][1] = XCOM_RETURN_KEY
          /\ pushes[k][2] \in {JsonLoads(response.content), YamlLoad(response.content),
                               TextOf(response.content), BytesOf(response.content)}
          /\ pushes[k][2] # ParseError

C12_Witness ==
    /\ sync_outcome = "success" /\ response.content = "{}"
    /\ pushes = <<<<XCOM_RETURN_KEY, PyValue("dict", "{}")>>>>

\* The text of a header value up to its first ";".
RECURSIVE BeforeSemicolon(_)
BeforeSemicolon(h) ==
    IF h = <<>> \/ Head(h) = ";" THEN <<>> ELSE <<Head(h)>> \o BeforeSemicolon(Tail(h))

Decoded ==
    LET ct == BeforeSemicolon(response.headers["Content-Type"])
    IN  CASE ct = <<"application/json">> -> JsonLoads(response.content)
          [] ct = <<"text/plain">> -> TextOf(response.content)
          [] ct \in {<<"text/yaml">>, <<"text/x-yaml">>, <<"text/vnd.yaml">>,
                     <<"application/yaml">>, <<"application/x-yaml">>}
                -> YamlLoad(response.content)
          [] OTHER -> BytesOf(response.content)

\* C13: the decoder is chosen by the Content-Type with everything from the
\* first ";" on removed: application/json is parsed as JSON, text/plain is
\* the text, the five YAML types are parsed as YAML, every other type is the
\* raw bytes; the value pushed is that decoder's result.
C13_DecoderByContentType ==
    (/\ sync_pc = "done" /\ response.status < 400 /\ response.content # ""
     /\ "Content-Type" \in DOMAIN response.headers)
        => IF Decoded = ParseError
           THEN sync_outcome = "decode_error" /\ pushes = <<>>
           ELSE sync_outcome = "success" /\ pushes = <<<<XCOM_RETURN_KEY, Decoded>>>>

C13_Witness ==
    /\ sync_pc = "done" /\ response.content = "{\"a\": 1}"
    /\ "Content-Type" \in DOMAIN response.headers
    /\ response.headers["Content-Type"] = <<"application/json", ";", " charset=utf-8">>
    /\ pushes = <<<<XCOM_RETURN_KEY, PyValue("dict", "{'a': 1}")>>>>

\* C14: deuniquify_job_name gives back the name that uniquify_job_name was
\* given (or inferred) and joined its digest to.
C14_RoundTrip ==
    name_pc = "done" => stripped_name = job_name

FileChecked == file_pc' # file_pc /\ file_pc \in {"check_first", "check_second"}

\* C15: an existence check that finds the succeeded object makes execute()
\* return successfully; one that finds the failed object, the succeeded
\* object not having been found, makes it fail with an AirflowException
\* carrying the 'found failure file' message; a pass that finds neither goes
\* back to the loop and execute() has not ended.
C15_MarkerObjectsDecide ==
    [][/\ (FileChecked /\ file_pc = "check_first" /\ Succeeded \in gcs)
             => (file_pc' = "done" /\ file_outcome' = "success")
       /\ (FileChecked /\ file_pc = "check_first" /\ Succeeded \notin gcs)
             => (file_pc' = "check_second" /\ file_outcome' = "running")
       /\ (FileChecked /\ file_pc = "check_second" /\ Failed \in gcs)
             => /\ file_pc' = "done" /\ file_outcome' = "remote_failed"
                /\ file_message' = "found failure file"
       /\ (FileChecked /\ file_pc = "check_second" /\ Failed \notin gcs)
             => (file_pc' = "loop" /\ file_outcome' = "running")
       /\ (file_outcome' # file_outcome /\ file_outcome' \in {"success", "remote_failed"})
             => FileChecked]_vars

C15_Witness ==
    /\ file_outcome = "remote_failed" /\ file_message = "found failure file"
    /\ file_rounds >= 1 /\ Succeeded \notin gcs

ExpectedFileSleep(k) == IF k < 4 THEN <<5, 10, 20, 40>>[k + 1] ELSE 60

FileSleepLengths ==
    \A k \in 1..Len(file_sleeps) :
        /\ file_sleeps[k] = ExpectedFileSleep(k - 1)
        /\ file_sleeps[k] <= 60
        /\ k > 1 => file_sleeps[k - 1] <= file_sleeps[k]

\* C16, as stated: the k-th sleep lasts min(60, 5*2^k) seconds, and every
\* sleep comes after a pass whose checks found both objects absent.
C16_SleepOnlyAfterAbsent ==
    FileSleepLengths /\ Len(file_sleeps) <= file_rounds

\* C16, amended: the k-th sleep lasts min(60, 5*2^k) seconds; the loop sleeps
\* before the checks of every pass, so the first sleep comes before any
\* check and each later sleep after a pass that found both objects absent.
C16_SleepBeforeEveryPass ==
    /\ FileSleepLengths
    /\ Len(file_sleeps) =
          file_rounds + (IF \/ file_pc \in {"check_first", "check_second"}
                            \/ file_outcome \in {"success", "remote_failed"}
                         THEN 1 ELSE 0)

C16_Witness ==
    /\ Len(file_sleeps) >= 6 /\ file_sleeps[1] = 5 /\ file_sleeps[4] = 40 /\ file_sleeps[6] = 60
    /\ file_rounds = 5 /\ file_pc = "check_first"

\* C17: with neither object ever written, execute() leaves the loop, and
\* leaves it with the timeout error, never with success or the failure
\* error; and the timeout error is raised only once 3600 seconds have passed
\* since the start of the polling.
C17_FileTimeoutWhenNeverWritten ==
    /\ [](file_outcome = "timeout" => file_now - file_start >= 3600)
    /\ []((file_pc = "done" /\ gcs = {}) => file_outcome \in {"timeout", "submit_failed"})
    /\ (file_pc \in {"loop", "check_first", "check_second"})
          ~> (gcs # {} \/ (file_pc = "done" /\ file_outcome = "timeout"))

C17_Witness ==
    /\ file_outcome = "timeout" /\ gcs = {} /\ file_start > 0
    /\ Len(file_sleeps) > 60

Invocations == Len(retry_calls)
EarlierAllCalledProcessError ==
    \A k \in 1..(Invocations - 1) : retry_calls[k].kind = "CalledProcessError"

\* C18: retryable_check_output(args, retry_count=n) invokes the subprocess
\* at most n+1 times; it invokes again only after a CalledProcessError; it
\* returns the output of the first invocation that succeeds; after n+1
\* CalledProcessErrors it raises the last one; and the call ends.
C18_AtMostNPlusOneInvocations ==
    /\ [](Invocations <= retry_n + 1 /\ EarlierAllCalledProcessError)
    /\ [](retry_pc = "done" =>
            /\ retry_result = retry_calls[Invocations]
            /\ retry_result.kind = "CalledProcessError" => Invocations = retry_n + 1)
    /\ [](retry_pc = "try" =>
            /\ retry_count = retry_n - Invocations
            /\ \A k \in 1..Invocations : retry_calls[k].kind = "CalledProcessError")
    /\ [][retry_pc = "done" => UNCHANGED retry_calls]_vars
    /\ (retry_pc = "try") ~> (retry_pc = "done")

C18_Witness ==
    /\ retry_pc = "done" /\ retry_n = 3 /\ Invocations = 4
    /\ retry_result.kind = "CalledProcessError"

Terminal(p) == Ended(p) /\ outcome[p] \in {"success", "remote_failed", "timeout"}

\* C19: an execute() call sends at most one submit request, and sends it
\* before any read or sleep of the poll phase; a call that ends in success,
\* a remote failure or a timeout has either sent one request, which was
\* accepted, or sent none because the adoption check saw the marker.
C19_SubmitOnceBeforePolling ==
    /\ [](\A p \in Procs :
            /\ submits[p] <= 1
            /\ Terminal(p) => \/ submits[p] = 1 /\ submitResult[p] = "ok"
                              \/ submits[p] = 0 /\ should_adopt[p])
    /\ [][\A p \in Procs :
            submits'[p] # submits[p]
                => /\ submits[p] = 0 /\ reads[p] = 0 /\ sleeps[p] = <<>>
                   /\ pc[p] = "schedule" /\ outcome[p] = "running"]_vars

C19_Witness ==
    \E p \in Procs :
        /\ Terminal(p) /\ outcome[p] = "timeout"
        /\ submits[p] = 0 /\ should_adopt[p] /\ reads[p] > 2

OperatorStep == \E p \in Procs : pc'[p] # pc[p]

\* C20: no step of the operator (adoption check, submission, polling, the
\* result phase, on success, remote failure or timeout) changes any key of
\* the result store: the store changes only when the remote backend writes.
C20_OperatorNeverWrites ==
    [][OperatorStep => xcom' = xcom]_vars

C20_Witness ==
    \E p \in Procs :
        /\ Ended(p) /\ outcome[p] = "remote_failed" /\ submits[p] = 1
        /\ store0[p][XCOM_RETURN_KEY] = NoRow /\ store0[p][PendingKey] = NoRow
        /\ xcom[PendingKey] = NoRow
        /\ xcom[XCOM_RETURN_KEY] = Sentinel /\ xcom["__EXCEPTION_MESSAGE"] = "boom"

\* The attempt has left schedule_job with its adoption check having run
\* against a store that held no pending marker and no result.
SawNothing(p) ==
    /\ p \in attempts
    /\ pc[p] \notin {"idle", "save", "schedule"}
    /\ store0[p][PendingKey] = NoRow
    /\ store0[p][XCOM_RETURN_KEY] = NoRow

\* C21: with two execute() calls of the same task instance and try number
\* under way at once from a store without a pending marker, nothing in the
\* component holds a submission back: every attempt whose adoption check saw
\* no marker sends its own submit request, whatever the other attempt has
\* done in the meantime (the check and the submit are separate steps and no
\* lock is taken), so a state in which both have submitted is reachable.
C21_NothingPreventsDoubleSubmit ==
    \A p \in Procs : SawNothing(p) => submits[p] = 1

C21_Witness ==
    /\ \A p \in TwoAttempts : SawNothing(p) /\ submits[p] = 1 /\ submitResult[p] = "ok"
    /\ \A p \in TwoAttempts : ~should_adopt[p]

LastSleep(p) == IF sleeps[p] = <<>> THEN 0 ELSE sleeps[p][Len(sleeps[p])]

\* C22: with reads of the store taking no time, the timeout error is raised
\* at the first pass of the poll loop that starts at or after the deadline
\* (the pass before it, one sleep earlier, started before the deadline), so
\* the elapsed time at the raise lies in [timeout, timeout + 60); every sleep
\* follows a timeout test and a read of its own pass (as many reads as
\* sleeps, one more while a sleep is due), and no sleep starts at or after
\* the deadline, so the loop neither spins nor sleeps on past the deadline.
C22_TimeoutWithinOneSleep ==
    \A p \in Procs :
        /\ (outcome[p] = "timeout" /\ readLatency[p] = 0)
              => /\ Elapsed(p) >= appengine_timeout
                 /\ Elapsed(p) < appengine_timeout + MaxBackoff
                 /\ Elapsed(p) - LastSleep(p) < appengine_timeout
                 /\ Len(sleeps[p]) = reads[p]
        /\ (InLoop(p) /\ readLatency[p] = 0) => Elapsed(p) < appengine_timeout + MaxBackoff
        /\ pc[p] = "loop" => Len(sleeps[p]) = reads[p]
        /\ pc[p] = "sleep"
              => /\ Len(sleeps[p]) = reads[p] - 1
                 /\ lastRead[p] \in {"absent", "raised"}
                 /\ readLatency[p] = 0 => Elapsed(p) < appengine_timeout

C22_Witness ==
    \E p \in Procs :
        /\ outcome[p] = "timeout" /\ readLatency[p] = 0
        /\ appengine_timeout = DefaultTimeout
        /\ Elapsed(p) > appengine_timeout
        /\ Len(sleeps[p]) >= 10 /\ LastSleep(p) = MaxBackoff

BothExist == {Succeeded, Failed} \subseteq gcs

\* C23, as stated: when both objects exist at the time of an existence
\* check, that check does not raise the failure error.
C23_SuccessWinsAtAnyCheck ==
    [][(FileChecked /\ BothExist) => file_outcome' # "remote_failed"]_vars

\* C23, amended: when both objects exist at the time of the first existence
\* check of a pass (the one for the succeeded object), execute() returns
\* successfully and the failure error is not raised; the failure error is
\* raised only by the second check of a pass whose first check did not find
\* the succeeded object.
C23_SuccessWinsAtFirstCheck ==
    [][/\ (FileChecked /\ file_pc = "check_first" /\ BothExist)
             => /\ file_pc' = "done" /\ file_outcome' = "success"
                /\ file_message' = ""
       /\ (file_outcome' # file_outcome /\ file_outcome' = "remote_failed")
             => (file_pc = "check_second" /\ file_found = {})]_vars

C23_Witness ==
    /\ BothExist /\ file_outcome = "success" /\ file_found = {Succeeded}
    /\ file_rounds >= 1 /\ file_message = ""
====
